---- MODULE Spec2Model ----
(***************************************************************************)
(* State-machine model of src-tauri/src/lib.rs of mvs-photo-form: the      *)
(* roster file operations (load_csv_file, save_player_data,                *)
(* write_csv_content, create_backup_file) over an abstract filesystem and  *)
(* the git orchestration (git_pull, git_push) over the existence of the    *)
(* mvs-job-barcodes directory.                                             *)
(*                                                                         *)
(* A file's content is a table: a header (sequence of column labels) and   *)
(* rows (sequences of values).  A file of zero bytes is the table with no  *)
(* header and no rows.  The csv reader/writer and the serde derives of     *)
(* struct Player are modelled by what they do to such tables.              *)
(***************************************************************************)
EXTENDS Integers, Sequences, FiniteSets, TLC

(***************************************************************************)
(* Bounds of the model.                                                    *)
(***************************************************************************)
\* seconds of wall-clock time the model distinguishes (Utc::now() at %S resolution)
MaxClock == 2
\* number of operations the external caller issues in one behaviour
MaxOps == 2

(***************************************************************************)
(* struct Player (lib.rs 11-35): ten renamed String fields and a flattened *)
(* HashMap<String, String> for every other column.                         *)
(***************************************************************************)
FixedLabels ==
    << "Barcode Number", "Team", "First Name", "Last Name", "Jersey Number",
       "Coach", "Cell Phone", "Email", "Products", "Packages" >>

FixedLabelSet == { FixedLabels[i] : i \in 1..Len(FixedLabels) }

\* The serde data-model shape the derived Serialize impl of Player emits.
\* A struct with a #[serde(flatten)] field (line 33) is serialized through
\* Serializer::serialize_map, one without through serialize_struct.
PlayerHasFlatten == TRUE

PlayerSerializeShape == IF PlayerHasFlatten THEN "map" ELSE "struct"

(***************************************************************************)
(* File contents.                                                          *)
(***************************************************************************)
EmptyContent == [header |-> << >>, rows |-> << >>]

\* Values the csv deserializer's type inference (deserialize_any, used for
\* the entries collected for a flattened field) reads as a bool or a number
\* and not as a string.
InferredNonString == { "7", "true" }

HeaderPlain == FixedLabels
HeaderSize  == FixedLabels \o << "Size" >>
\* the same columns in another order: unknown column first, Team before Barcode
HeaderPermuted ==
    << "Size", "Team", "Barcode Number", "First Name", "Last Name",
       "Jersey Number", "Coach", "Cell Phone", "Email", "Products", "Packages" >>

RowPlain(barcode, team, first) ==
    << barcode, team, first, "Lee", "7", "Coach A", "555-1111", "a@x.com", "Hat", "Pkg1" >>

RowSize(barcode, team, first, size) == RowPlain(barcode, team, first) \o << size >>

RowPermuted(barcode, team, first, size) ==
    << size, team, barcode, first, "Lee", "7", "Coach A", "555-1111", "a@x.com", "Hat", "Pkg1" >>

\* Roster files the behaviours start from.
TblScenario == [header |-> HeaderSize, rows |-> << RowSize("123", "Red", "Ann", "M") >>]
TblTwo      == [header |-> HeaderSize,
                rows |-> << RowSize("123", "Red", "Ann", "M"), RowSize("456", "Blue", "Bob", "L") >>]
TblDup      == [header |-> HeaderPermuted,
                rows |-> << RowPermuted("123", "Red", "Ann", "M"), RowPermuted("123", "Blue", "Bob", "L") >>]
TblNoRows   == [header |-> HeaderSize, rows |-> << >>]
TblPlain    == [header |-> HeaderPlain, rows |-> << RowPlain("456", "Blue", "Bob") >>]
\* undecodable: a row shorter than the header
TblShortRow == [header |-> HeaderSize, rows |-> << RowPlain("123", "Red", "Ann") >>]
\* undecodable: a required column is missing
TblNoTeam   == [header |-> << "Barcode Number", "First Name" >>, rows |-> << << "123", "Ann" >> >>]
\* undecodable: an unknown column holds a number-looking value
TblNumeric  == [header |-> HeaderSize, rows |-> << RowSize("123", "Red", "Ann", "7") >>]

RosterFiles ==
    { TblScenario, TblTwo, TblDup, TblNoRows, TblPlain, TblShortRow, TblNoTeam,
      TblNumeric, EmptyContent }

\* Pre-serialized content handed to write_csv_content.
RawContents == { TblTwo }

(***************************************************************************)
(* Tabular codec: csv::Reader::deserialize::<Player>() (lib.rs 162-171).   *)
(***************************************************************************)
Positions(header, label) == { i \in 1..Len(header) : header[i] = label }

OnlyPosition(header, label) == CHOOSE i \in Positions(header, label) : TRUE

LastPosition(header, label) ==
    CHOOSE i \in Positions(header, label) : \A j \in Positions(header, label) : j <= i

UnknownLabels(header) ==
    { header[i] : i \in 1..Len(header) } \ FixedLabelSet

\* A row deserializes into Player: as many fields as the header has (the
\* reader is not flexible), every fixed label present exactly once (missing
\* field / duplicate field otherwise), and every value of an unknown column
\* inferred as a string (the flattened map is HashMap<String, String>).
RowDecodable(header, row) ==
    /\ Len(row) = Len(header)
    /\ \A l \in FixedLabelSet : Cardinality(Positions(header, l)) = 1
    /\ \A i \in 1..Len(header) :
          header[i] \notin FixedLabelSet => row[i] \notin InferredNonString

DecodeRow(header, row) ==
    [ barcode       |-> row[OnlyPosition(header, "Barcode Number")],
      team          |-> row[OnlyPosition(header, "Team")],
      first_name    |-> row[OnlyPosition(header, "First Name")],
      last_name     |-> row[OnlyPosition(header, "Last Name")],
      jersey_number |-> row[OnlyPosition(header, "Jersey Number")],
      coach         |-> row[OnlyPosition(header, "Coach")],
      cell_phone    |-> row[OnlyPosition(header, "Cell Phone")],
      email         |-> row[OnlyPosition(header, "Email")],
      products      |-> row[OnlyPosition(header, "Products")],
      packages      |-> row[OnlyPosition(header, "Packages")],
      other_fields  |-> [ l \in UnknownLabels(header) |-> row[LastPosition(header, l)] ] ]

\* The loop `for result in reader.deserialize() { let player = result?; .. }`:
\* the first row that does not deserialize aborts the load.
Decode(content) ==
    IF \A i \in 1..Len(content.rows) : RowDecodable(content.header, content.rows[i])
    THEN [ok |-> TRUE,
          players |-> [ i \in 1..Len(content.rows) |-> DecodeRow(content.header, content.rows[i]) ]]
    ELSE [ok |-> FALSE, players |-> << >>]


\* load_csv_file's teams: the distinct team values (a HashSet), collected into
\* a Vec and sorted ascending.  StringOrder lists the team values of the model
\* in the byte order String's Ord uses.
StringOrder == << "Blue", "Red" >>

RECURSIVE SortedTeams(_, _)
SortedTeams(teams, i) ==
    IF i > Len(StringOrder) THEN << >>
    ELSE (IF StringOrder[i] \in teams THEN << StringOrder[i] >> ELSE << >>)
         \o SortedTeams(teams, i + 1)

\* Fault variant of TeamsOf: the team of every record, in record order,
\* neither deduplicated nor sorted.
TeamsOfUnsorted(players) == [ i \in 1..Len(players) |-> players[i].team ]

TeamsOf(players) == SortedTeams({ players[i].team : i \in 1..Len(players) }, 1)

(***************************************************************************)
(* csv::Writer::serialize(player) (lib.rs 204-206).  The writer's record   *)
(* and header serializers accept the struct shape and reject the map shape *)
(* ("serializing maps is not supported"); the writer emits the header row  *)
(* together with the first record it serializes, never before.  wbuf is    *)
(* the writer's buffer: what it has serialized and not yet flushed.        *)
(***************************************************************************)
CsvSerializerAccepts(shape) == shape = "struct"

FixedRow(player) ==
    << player.barcode, player.team, player.first_name, player.last_name,
       player.jersey_number, player.coach, player.cell_phone, player.email,
       player.products, player.packages >>

SerializeRecord(wbuf, player) ==
    IF CsvSerializerAccepts(PlayerSerializeShape)
    THEN [ok |-> TRUE,
          wbuf |-> [header |-> FixedLabels, rows |-> Append(wbuf.rows, FixedRow(player))]]
    ELSE [ok |-> FALSE, wbuf |-> wbuf]

\* The whole of lines 202-208 as a function of the roster: the bytes that
\* reach the file and whether every serialize call returned Ok.
RECURSIVE EncodeFrom(_, _, _)
EncodeFrom(players, i, wbuf) ==
    IF i > Len(players) THEN [ok |-> TRUE, content |-> wbuf]
    ELSE LET r == SerializeRecord(wbuf, players[i])
         IN  IF r.ok THEN EncodeFrom(players, i + 1, r.wbuf)
             ELSE [ok |-> FALSE, content |-> r.wbuf]

Encode(players) == EncodeFrom(players, 1, EmptyContent)

(***************************************************************************)
(* struct PlayerUpdate (lib.rs 44-54) and the find-and-update of           *)
(* save_player_data (lib.rs 190-199).                                      *)
(***************************************************************************)
MakeUpdate(barcode) ==
    [ barcode |-> barcode, first_name |-> "Anne", last_name |-> "Ley",
      cell_phone |-> "555-2222", email |-> "b@y.org", coach |-> "Coach B",
      products |-> "Mug", packages |-> "Pkg2" ]

Updates == { MakeUpdate("123"), MakeUpdate("456"), MakeUpdate("999") }

NoUpdate == MakeUpdate("")

Matches(players, u) == { i \in 1..Len(players) : players[i].barcode = u.barcode }

\* iter_mut().find(..): the first record, in order, with the update's barcode
FirstMatch(players, u) ==
    CHOOSE i \in Matches(players, u) : \A j \in Matches(players, u) : i <= j

UpdatedPlayer(player, u) ==
    [ player EXCEPT !.first_name = u.first_name,
                    !.last_name  = u.last_name,
                    !.cell_phone = u.cell_phone,
                    !.email      = u.email,
                    !.coach      = u.coach,
                    !.products   = u.products,
                    !.packages   = u.packages ]

ApplyUpdate(players, u) ==
    IF Matches(players, u) = {} THEN players
    ELSE [ players EXCEPT ![FirstMatch(players, u)] = UpdatedPlayer(@, u) ]

(***************************************************************************)
(* Paths.  A path is its parent (NoParent when Path::parent() is None), its *)
(* file stem as a sequence of name pieces (empty when file_stem() is None)  *)
(* and its extension ("" when extension() is None).                         *)
(***************************************************************************)
NoParent == "<none>"

PRoster  == [parent |-> "/data", stem |-> << "roster" >>, ext |-> "csv"]
\* a file without an extension in the same directory
PNoExt   == [parent |-> "/data", stem |-> << "roster" >>, ext |-> ""]
\* a bare file name: parent() is Some("")
PBare    == [parent |-> "", stem |-> << "export" >>, ext |-> "csv"]
\* "/": parent() and file_stem() are None; it is a directory, never a file
PRootDir == [parent |-> NoParent, stem |-> << >>, ext |-> ""]
NoPath   == [parent |-> NoParent, stem |-> << "<unset>" >>, ext |-> ""]

\* Fault variant of Stamp: a format without the time of day ("%Y%m%d"), the
\* same for every second of the model.
StampOfDay(t) == "20260101"

\* Utc::now().format("%Y%m%d_%H%M%S"): one stamp per second
Stamp(t) == ToString(t)

\* create_backup_file's backup_path (lib.rs 241-250)
BackupPath(p, t) ==
    IF p.parent # NoParent
    THEN [ parent |-> p.parent,
           stem   |-> (IF p.stem = << >> THEN << "backup" >> ELSE p.stem)
                      \o << "_backup_", Stamp(t) >>,
           ext    |-> IF p.ext = "" THEN "csv" ELSE p.ext ]
    ELSE [ parent |-> "", stem |-> << "backup_", Stamp(t) >>, ext |-> "csv" ]

\* Fault variant of ResolveTarget: the name is used as given, relative to the
\* current directory when it has no directory component.
ResolveTargetAsGiven(p, homeDir) == p

\* write_csv_content's target_path (lib.rs 215-225); home is $HOME or "" when unset
ResolveTarget(p, homeDir) ==
    IF p.parent = NoParent \/ p.parent = ""
    THEN [ parent |-> (IF homeDir = "" THEN "/tmp" ELSE homeDir) \o "/Downloads",
           stem |-> p.stem, ext |-> p.ext ]
    ELSE p

(***************************************************************************)
(* Filesystem.  fsys maps each existing regular file to its content.       *)
(* An operation's io argument is what the operating system answers:        *)
(* "ok", "denied" (the call fails before it changes anything) or           *)
(* "partial" (the destination was created or truncated and the transfer    *)
(* of the bytes then failed).                                              *)
(***************************************************************************)
IoOutcomes == { "ok", "denied", "partial" }

IsFile(f, p) == p \in DOMAIN f

PutFile(f, p, content) ==
    [ q \in DOMAIN f \cup {p} |-> IF q = p THEN content ELSE f[q] ]

\* What is left of a content whose write was cut short: whole rows only
Prefixes(content) ==
    { EmptyContent } \cup
    { [header |-> content.header, rows |-> SubSeq(content.rows, 1, k)] :
        k \in 0..(Len(content.rows) - 1) }

\* Fault variant of CopyFile: the destination is created before the source is
\* opened, so a missing source still leaves an (empty) destination behind.
CopyFileCreatesFirst(f, src, dst, io) ==
    IF ~IsFile(f, src) \/ io # "ok" THEN [ok |-> FALSE, fsys |-> PutFile(f, dst, EmptyContent)]
    ELSE [ok |-> TRUE, fsys |-> PutFile(f, dst, f[src])]

\* Fault variant of CopyFile: a retention policy that keeps one backup per
\* directory, removing the other files of dst's directory named *_backup_*.
CopyFileRotating(f, src, dst, io) ==
    IF ~IsFile(f, src) \/ io = "denied" THEN [ok |-> FALSE, fsys |-> f]
    ELSE LET kept == { q \in DOMAIN f : ~(q.parent = dst.parent /\ Len(q.stem) > 1) }
             g    == [ q \in kept |-> f[q] ]
         IN  IF io = "partial" THEN [ok |-> FALSE, fsys |-> PutFile(g, dst, EmptyContent)]
             ELSE [ok |-> TRUE, fsys |-> PutFile(g, dst, f[src])]

\* fs::copy(src, dst) (lib.rs 252): [ok, fsys]
CopyFile(f, src, dst, io) ==
    IF ~IsFile(f, src) \/ io = "denied" THEN [ok |-> FALSE, fsys |-> f]
    ELSE IF io = "partial" THEN [ok |-> FALSE, fsys |-> PutFile(f, dst, EmptyContent)]
    ELSE [ok |-> TRUE, fsys |-> PutFile(f, dst, f[src])]

\* create_backup_file (lib.rs 240-256): [ok, fsys, path]
CreateBackupFile(f, p, t, io) ==
    LET r == CopyFile(f, p, BackupPath(p, t), io)
    IN  [ok |-> r.ok, fsys |-> r.fsys, path |-> BackupPath(p, t)]


(***************************************************************************)
(* State.                                                                  *)
(***************************************************************************)
VARIABLES
    fsys,        \* the regular files that exist, each with its content
    now,         \* the current second of Utc::now()
    homeDir,     \* $HOME, "" when the variable is not set
    parentOk,    \* whether get_parent_dir() resolves (APPIMAGE set / exe path deep enough)
    treeExists,  \* whether <parent>/mvs-job-barcodes exists
    cloned,      \* history: a git clone spawned by git_pull has exited successfully
    nops,        \* operations issued so far
    call         \* per caller: the invocation in flight or last finished

vars == << fsys, now, homeDir, parentOk, treeExists, cloned, nops, call >>

\* The frontend that invokes the commands.  One caller issues one command at
\* a time; AllCallers is the domain of call.
AllCallers == { 1, 2 }
Callers == { 1 }

NoFiles == [ p \in {} |-> EmptyContent ]

Idle ==
    [ op       |-> "none",     \* load | save | write | backup | pull | push
      pc       |-> "idle",     \* position inside the operation; "done" once it returned
      path     |-> NoPath,     \* file_path argument
      target   |-> NoPath,     \* write_csv_content's target_path
      upd      |-> NoUpdate,   \* player_update argument
      content  |-> EmptyContent,  \* csv_content argument
      bpath    |-> NoPath,     \* path create_backup_file returned to this call
      backedUp |-> FALSE,      \* create_backup_file was called and returned Ok
      pre      |-> NoFiles,    \* the filesystem when the call started
      tree0    |-> FALSE,      \* barcodes_dir.exists() when the call started
      cloned0  |-> FALSE,      \* history: a clone had succeeded before the call started
      players  |-> << >>,      \* csv_data.players
      teams    |-> << >>,      \* csv_data.teams
      idx      |-> 0,          \* next player of the write loop
      wbuf     |-> EmptyContent,  \* the csv writer's unflushed output
      cmds     |-> << >>,      \* git subcommands the call spawned, in order, each with its outcome
      fault    |-> FALSE,      \* the operating system failed a file operation of the call
      denied   |-> FALSE,      \* the operating system refused to open path for reading
      during   |-> {},         \* the callers that were inside a call when this call started
      ok       |-> FALSE,      \* the Result returned: Ok or Err
      msg      |-> "" ]        \* its message

Fresh(opname) ==
    [ Idle EXCEPT !.op = opname, !.pre = fsys, !.tree0 = treeExists, !.cloned0 = cloned,
                  !.during = { d \in AllCallers : call[d].pc \notin { "idle", "done" } } ]

CanStart(c) == call[c].pc \in { "idle", "done" } /\ nops < MaxOps

Return(rec, isOk, message) == [ rec EXCEPT !.pc = "done", !.ok = isOk, !.msg = message ]

InitialFiles ==
    { NoFiles } \cup
    { PutFile(NoFiles, PRoster, t) : t \in RosterFiles } \cup
    { PutFile(PutFile(NoFiles, PRoster, TblScenario), PNoExt, TblPlain),
      PutFile(PutFile(NoFiles, PRoster, TblTwo), ResolveTarget(PBare, "/home/user"), TblPlain),
      PutFile(NoFiles, ResolveTarget(PBare, ""), TblScenario) }

\* The environments a behaviour starts in: $HOME ("" when not set), whether
\* get_parent_dir() resolves, whether the mvs-job-barcodes directory exists
\* (there is no such directory to speak of when its parent does not resolve).
Environments ==
    { [home |-> "/home/user", parentOk |-> TRUE,  tree |-> FALSE],
      [home |-> "",           parentOk |-> TRUE,  tree |-> TRUE],
      [home |-> "/home/user", parentOk |-> FALSE, tree |-> FALSE] }

\* Only the git commands read parentOk; the environment in which it is FALSE
\* starts from one roster file or none.
Init ==
    /\ now = 1
    /\ \E e \in Environments :
          /\ homeDir = e.home
          /\ parentOk = e.parentOk
          /\ treeExists = e.tree
          /\ fsys \in IF e.parentOk THEN InitialFiles
                      ELSE { NoFiles, PutFile(NoFiles, PRoster, TblTwo) }
    /\ cloned = FALSE
    /\ nops = 0
    /\ call = [ c \in AllCallers |-> Idle ]

\* A second passes.
Tick ==
    /\ now < MaxClock
    /\ now' = now + 1
    /\ UNCHANGED << fsys, homeDir, parentOk, treeExists, cloned, nops, call >>

(***************************************************************************)
(* load_csv (lib.rs 62-65, 158-181).                                       *)
(***************************************************************************)
LoadCsvFile(c, p) ==
    /\ CanStart(c)
    /\ nops' = nops + 1
    /\ LET r == Fresh("load")
           d == IF IsFile(fsys, p) THEN Decode(fsys[p]) ELSE [ok |-> FALSE, players |-> << >>]
       IN  call' = [ call EXCEPT ![c] =
              IF ~IsFile(fsys, p)
              THEN Return([ r EXCEPT !.path = p ], FALSE, "Failed to read file")
              ELSE IF ~d.ok
              THEN Return([ r EXCEPT !.path = p ], FALSE, "csv deserialize error")
              ELSE Return([ r EXCEPT !.path = p, !.players = d.players,
                                     !.teams = TeamsOf(d.players) ], TRUE, "CSVData") ]
    /\ UNCHANGED << fsys, now, homeDir, parentOk, treeExists, cloned >>

(***************************************************************************)
(* create_backup (lib.rs 72-75, 240-256).                                  *)
(***************************************************************************)
CreateBackup(c, p, io) ==
    /\ CanStart(c)
    /\ nops' = nops + 1
    /\ LET r == Fresh("backup")
           b == CreateBackupFile(fsys, p, now, io)
       IN  /\ fsys' = b.fsys
           /\ call' = [ call EXCEPT ![c] =
                 IF b.ok
                 THEN Return([ r EXCEPT !.path = p, !.bpath = b.path, !.backedUp = TRUE,
                                        !.fault = (io # "ok") ], TRUE, "backup path")
                 ELSE Return([ r EXCEPT !.path = p, !.fault = (io # "ok" /\ IsFile(fsys, p)) ],
                             FALSE, "Failed to create backup") ]
    /\ UNCHANGED << now, homeDir, parentOk, treeExists, cloned >>

(***************************************************************************)
(* save_player (lib.rs 67-70, 183-210), one action per statement that      *)
(* touches the filesystem.                                                 *)
(***************************************************************************)
\* Fault variant of SaveBackup: the backup is not taken and the call goes on.
SaveBackupSkipped(c, p, u, io) ==
    /\ CanStart(c)
    /\ io = "ok"
    /\ nops' = nops + 1
    /\ fsys' = fsys
    /\ call' = [ call EXCEPT ![c] =
          [ Fresh("save") EXCEPT !.path = p, !.upd = u, !.pc = "load" ] ]
    /\ UNCHANGED << now, homeDir, parentOk, treeExists, cloned >>

\* line 185: create_backup_file(file_path).await?
SaveBackup(c, p, u, io) ==
    /\ CanStart(c)
    /\ nops' = nops + 1
    /\ LET r == [ Fresh("save") EXCEPT !.path = p, !.upd = u ]
           b == CreateBackupFile(fsys, p, now, io)
       IN  /\ fsys' = b.fsys
           /\ call' = [ call EXCEPT ![c] =
                 IF b.ok
                 THEN [ r EXCEPT !.pc = "load", !.bpath = b.path, !.backedUp = TRUE ]
                 ELSE Return([ r EXCEPT !.fault = (io # "ok" /\ IsFile(fsys, p)),
                                        !.denied = (io = "denied" /\ IsFile(fsys, p)) ],
                             FALSE, "Failed to create backup") ]
    /\ UNCHANGED << now, homeDir, parentOk, treeExists, cloned >>

\* Fault variant of SaveLoad: a file that does not decode is taken for a
\* roster of zero records and the call goes on to rewrite it.
SaveLoadLenient(c) ==
    /\ call[c].op = "save" /\ call[c].pc = "load"
    /\ LET p == call[c].path
           d == IF IsFile(fsys, p) THEN Decode(fsys[p]) ELSE [ok |-> FALSE, players |-> << >>]
       IN  call' = [ call EXCEPT ![c] =
              [ @ EXCEPT !.pc = "open",
                         !.teams = TeamsOf(d.players),
                         !.players = ApplyUpdate(d.players, call[c].upd) ] ]
    /\ UNCHANGED << fsys, now, homeDir, parentOk, treeExists, cloned, nops >>

\* lines 188-199: load_csv_file(file_path).await?, then find and update
SaveLoad(c) ==
    /\ call[c].op = "save" /\ call[c].pc = "load"
    /\ LET p == call[c].path
           d == IF IsFile(fsys, p) THEN Decode(fsys[p]) ELSE [ok |-> FALSE, players |-> << >>]
       IN  call' = [ call EXCEPT ![c] =
              IF ~IsFile(fsys, p) THEN Return(@, FALSE, "Failed to read file")
              ELSE IF ~d.ok THEN Return(@, FALSE, "csv deserialize error")
              ELSE [ @ EXCEPT !.pc = "open",
                              !.teams = TeamsOf(d.players),
                              !.players = ApplyUpdate(d.players, call[c].upd) ] ]
    /\ UNCHANGED << fsys, now, homeDir, parentOk, treeExists, cloned, nops >>

\* line 202: csv::Writer::from_path(file_path)? creates or truncates the file
SaveOpen(c, io) ==
    /\ call[c].op = "save" /\ call[c].pc = "open"
    /\ io \in { "ok", "denied" }
    /\ IF io = "ok"
       THEN /\ fsys' = PutFile(fsys, call[c].path, EmptyContent)
            /\ call' = [ call EXCEPT ![c] = [ @ EXCEPT !.pc = "write", !.idx = 1,
                                                       !.wbuf = EmptyContent ] ]
       ELSE /\ fsys' = fsys
            /\ call' = [ call EXCEPT ![c] =
                  Return([ @ EXCEPT !.fault = TRUE ], FALSE, "csv writer open error") ]
    /\ UNCHANGED << now, homeDir, parentOk, treeExists, cloned, nops >>

\* What the writer's buffer adds to a file when the buffer is written out.
Flushed(content, wbuf) ==
    IF wbuf = EmptyContent THEN content
    ELSE [header |-> wbuf.header, rows |-> content.rows \o wbuf.rows]

\* lines 204-206: writer.serialize(player)?  An Err leaves the function; the
\* writer is dropped, and the drop writes out what the buffer holds.
SaveSerialize(c) ==
    /\ call[c].op = "save" /\ call[c].pc = "write"
    /\ call[c].idx <= Len(call[c].players)
    /\ LET r == SerializeRecord(call[c].wbuf, call[c].players[call[c].idx])
           p == call[c].path
       IN  IF r.ok
           THEN /\ call' = [ call EXCEPT ![c] = [ @ EXCEPT !.idx = @ + 1, !.wbuf = r.wbuf ] ]
                /\ fsys' = fsys
           ELSE /\ call' = [ call EXCEPT ![c] =
                      Return([ @ EXCEPT !.wbuf = EmptyContent ], FALSE,
                             "serializing maps is not supported") ]
                /\ fsys' = IF IsFile(fsys, p)
                           THEN PutFile(fsys, p, Flushed(fsys[p], r.wbuf)) ELSE fsys
    /\ UNCHANGED << now, homeDir, parentOk, treeExists, cloned, nops >>

\* lines 208-209: writer.flush()?; Ok(())
SaveFlush(c, io) ==
    /\ call[c].op = "save" /\ call[c].pc = "write"
    /\ call[c].idx > Len(call[c].players)
    /\ io \in { "ok", "partial" }
    /\ io = "partial" => call[c].wbuf # EmptyContent
    /\ LET p == call[c].path
           whole == Flushed(IF IsFile(fsys, p) THEN fsys[p] ELSE EmptyContent, call[c].wbuf)
       IN  IF io = "ok"
           THEN /\ fsys' = PutFile(fsys, p, whole)
                /\ call' = [ call EXCEPT ![c] =
                      Return([ @ EXCEPT !.wbuf = EmptyContent ], TRUE, "saved") ]
           ELSE /\ \E part \in Prefixes(whole) : fsys' = PutFile(fsys, p, part)
                /\ call' = [ call EXCEPT ![c] =
                      Return([ @ EXCEPT !.wbuf = EmptyContent, !.fault = TRUE ], FALSE,
                             "csv writer flush error") ]
    /\ UNCHANGED << now, homeDir, parentOk, treeExists, cloned, nops >>


(***************************************************************************)
(* write_csv_file (lib.rs 77-80, 212-238).                                 *)
(***************************************************************************)
\* Fault variant of WriteBackup: a failed backup is ignored (no `?`) and the
\* call goes on to write the target.
WriteBackupBestEffort(c, p, content, io) ==
    /\ CanStart(c)
    /\ nops' = nops + 1
    /\ LET t == ResolveTarget(p, homeDir)
           r == [ Fresh("write") EXCEPT !.path = p, !.target = t, !.content = content ]
           b == CreateBackupFile(fsys, t, now, io)
       IN  IF IsFile(fsys, t)
           THEN /\ fsys' = b.fsys
                /\ call' = [ call EXCEPT ![c] =
                      [ r EXCEPT !.pc = "write", !.bpath = b.path, !.backedUp = b.ok ] ]
           ELSE /\ io = "ok"
                /\ fsys' = fsys
                /\ call' = [ call EXCEPT ![c] = [ r EXCEPT !.pc = "write" ] ]
    /\ UNCHANGED << now, homeDir, parentOk, treeExists, cloned >>

\* lines 215-230: resolve the target; back it up if it exists
WriteBackup(c, p, content, io) ==
    /\ CanStart(c)
    /\ nops' = nops + 1
    /\ LET t == ResolveTarget(p, homeDir)
           r == [ Fresh("write") EXCEPT !.path = p, !.target = t, !.content = content ]
           b == CreateBackupFile(fsys, t, now, io)
       IN  IF IsFile(fsys, t)
           THEN /\ fsys' = b.fsys
                /\ call' = [ call EXCEPT ![c] =
                      IF b.ok
                      THEN [ r EXCEPT !.pc = "write", !.bpath = b.path, !.backedUp = TRUE ]
                      ELSE Return([ r EXCEPT !.fault = TRUE ], FALSE, "Failed to create backup") ]
           ELSE /\ io = "ok"
                /\ fsys' = fsys
                /\ call' = [ call EXCEPT ![c] = [ r EXCEPT !.pc = "write" ] ]
    /\ UNCHANGED << now, homeDir, parentOk, treeExists, cloned >>

\* fs::write(path, content): create or truncate, then write all the bytes
WriteFile(f, p, content, io, part) ==
    IF io = "denied" THEN [ok |-> FALSE, fsys |-> f]
    ELSE IF io = "partial" THEN [ok |-> FALSE, fsys |-> PutFile(f, p, part)]
    ELSE [ok |-> TRUE, fsys |-> PutFile(f, p, content)]

\* lines 233-237: fs::write(&target_path, csv_content)
WriteContent(c, io) ==
    /\ call[c].op = "write" /\ call[c].pc = "write"
    /\ \E part \in Prefixes(call[c].content) :
          LET w == WriteFile(fsys, call[c].target, call[c].content, io, part)
          IN  /\ io # "partial" => part = EmptyContent
              /\ fsys' = w.fsys
              /\ call' = [ call EXCEPT ![c] =
                    IF w.ok THEN Return(@, TRUE, "CSV file saved")
                    ELSE Return([ @ EXCEPT !.fault = TRUE ], FALSE,
                                "Failed to write CSV content to file") ]
    /\ UNCHANGED << now, homeDir, parentOk, treeExists, cloned, nops >>

(***************************************************************************)
(* git_pull and git_push (lib.rs 258-376).  A spawned git command answers  *)
(* with one of GitOutcomes: "spawn_error" (Command::output() is Err),      *)
(* "success" (exit status 0) or "failure" (any other exit status).         *)
(***************************************************************************)
GitOutcomes == { "spawn_error", "success", "failure" }

\* Fault variant of PullBegin: the existence test is dropped and every call clones.
PullBeginAlwaysClones(c) ==
    /\ CanStart(c)
    /\ nops' = nops + 1
    /\ call' = [ call EXCEPT ![c] =
          IF ~parentOk
          THEN Return(Fresh("pull"), FALSE, "Could not determine parent directory")
          ELSE [ Fresh("pull") EXCEPT !.pc = "clone" ] ]
    /\ UNCHANGED << fsys, now, homeDir, parentOk, treeExists, cloned >>

\* lines 285-288: get_parent_dir()?, barcodes_dir.exists()
PullBegin(c) ==
    /\ CanStart(c)
    /\ nops' = nops + 1
    /\ call' = [ call EXCEPT ![c] =
          IF ~parentOk
          THEN Return(Fresh("pull"), FALSE, "Could not determine parent directory")
          ELSE [ Fresh("pull") EXCEPT !.pc = IF treeExists THEN "pull" ELSE "clone" ] ]
    /\ UNCHANGED << fsys, now, homeDir, parentOk, treeExists, cloned >>

\* What a finished `git clone <url>` leaves of the directory it was to create
CloneLeavesTree(out) == out = "success"

\* lines 289-302: git clone in parent_dir
PullClone(c, out) ==
    /\ call[c].op = "pull" /\ call[c].pc = "clone"
    /\ treeExists' = (treeExists \/ CloneLeavesTree(out))
    /\ cloned' = (cloned \/ out = "success")
    /\ call' = [ call EXCEPT ![c] =
          LET r == [ @ EXCEPT !.cmds = Append(@, [cmd |-> "clone", out |-> out]) ]
          IN  CASE out = "spawn_error" -> Return(r, FALSE, "Failed to run git clone")
                [] out = "success"     -> Return(r, TRUE, "Repository cloned successfully!")
                [] out = "failure"     -> Return(r, FALSE, "Git clone failed") ]
    /\ UNCHANGED << fsys, now, homeDir, parentOk, nops >>

\* lines 303-319: git pull in barcodes_dir
PullPull(c, out) ==
    /\ call[c].op = "pull" /\ call[c].pc = "pull"
    /\ call' = [ call EXCEPT ![c] =
          LET r == [ @ EXCEPT !.cmds = Append(@, [cmd |-> "pull", out |-> out]) ]
          IN  CASE out = "spawn_error" -> Return(r, FALSE, "Failed to run git pull")
                [] out = "success"     -> Return(r, TRUE, "Pull successful")
                [] out = "failure"     -> Return(r, FALSE, "Git pull failed") ]
    /\ UNCHANGED << fsys, now, homeDir, parentOk, treeExists, cloned, nops >>

\* Fault variant of PushBegin: the folder-not-found early return is missing.
PushBeginUnchecked(c) ==
    /\ CanStart(c)
    /\ nops' = nops + 1
    /\ call' = [ call EXCEPT ![c] =
          IF ~parentOk
          THEN Return(Fresh("push"), FALSE, "Could not determine parent directory")
          ELSE [ Fresh("push") EXCEPT !.pc = "add" ] ]
    /\ UNCHANGED << fsys, now, homeDir, parentOk, treeExists, cloned >>

\* lines 324-329: get_parent_dir()?, the folder-not-found early return
PushBegin(c) ==
    /\ CanStart(c)
    /\ nops' = nops + 1
    /\ call' = [ call EXCEPT ![c] =
          IF ~parentOk
          THEN Return(Fresh("push"), FALSE, "Could not determine parent directory")
          ELSE IF ~treeExists
          THEN Return(Fresh("push"), FALSE,
                      "mvs-job-barcodes folder not found. Please pull first.")
          ELSE [ Fresh("push") EXCEPT !.pc = "add" ] ]
    /\ UNCHANGED << fsys, now, homeDir, parentOk, treeExists, cloned >>

\* Fault variant of PushAdd: the exit status of git add is not looked at.
PushAddIgnoresFailure(c, out) ==
    /\ call[c].op = "push" /\ call[c].pc = "add"
    /\ call' = [ call EXCEPT ![c] =
          LET r == [ @ EXCEPT !.cmds = Append(@, [cmd |-> "add", out |-> out]) ]
          IN  IF out = "spawn_error" THEN Return(r, FALSE, "Failed to run git add")
              ELSE [ r EXCEPT !.pc = "commit" ] ]
    /\ UNCHANGED << fsys, now, homeDir, parentOk, treeExists, cloned, nops >>

\* lines 331-342: git add .
PushAdd(c, out) ==
    /\ call[c].op = "push" /\ call[c].pc = "add"
    /\ call' = [ call EXCEPT ![c] =
          LET r == [ @ EXCEPT !.cmds = Append(@, [cmd |-> "add", out |-> out]) ]
          IN  CASE out = "spawn_error" -> Return(r, FALSE, "Failed to run git add")
                [] out = "success"     -> [ r EXCEPT !.pc = "commit" ]
                [] out = "failure"     -> Return(r, FALSE, "Git add failed") ]
    /\ UNCHANGED << fsys, now, homeDir, parentOk, treeExists, cloned, nops >>

\* git commit can also answer "nothing_to_commit": a non-zero exit status with
\* "nothing to commit" in its stdout or stderr.
CommitOutcomes == GitOutcomes \cup { "nothing_to_commit" }

\* The Result git_push returns for a commit that exited non-zero (lines 352-360)
CommitFailureResult(r, out) ==
    IF out = "nothing_to_commit"
    THEN Return(r, FALSE, "Nothing to commit - no changes detected.")
    ELSE Return(r, FALSE, "Git commit failed")

\* lines 344-360: git commit -m <message>
PushCommit(c, out) ==
    /\ call[c].op = "push" /\ call[c].pc = "commit"
    /\ call' = [ call EXCEPT ![c] =
          LET r == [ @ EXCEPT !.cmds = Append(@, [cmd |-> "commit", out |-> out]) ]
          IN  CASE out = "spawn_error" -> Return(r, FALSE, "Failed to run git commit")
                [] out = "success"     -> [ r EXCEPT !.pc = "push" ]
                [] OTHER               -> CommitFailureResult(r, out) ]
    /\ UNCHANGED << fsys, now, homeDir, parentOk, treeExists, cloned, nops >>

\* lines 362-375: git push
PushPush(c, out) ==
    /\ call[c].op = "push" /\ call[c].pc = "push"
    /\ call' = [ call EXCEPT ![c] =
          LET r == [ @ EXCEPT !.cmds = Append(@, [cmd |-> "push", out |-> out]) ]
          IN  CASE out = "spawn_error" -> Return(r, FALSE, "Failed to run git push")
                [] out = "success"     -> Return(r, TRUE, "Changes pushed successfully!")
                [] out = "failure"     -> Return(r, FALSE, "Git push failed") ]
    /\ UNCHANGED << fsys, now, homeDir, parentOk, treeExists, cloned, nops >>

(***************************************************************************)
(* The commands the frontend can invoke (invoke_handler, lib.rs 459-469)   *)
(* and their arguments.                                                    *)
(***************************************************************************)
SaveArgs   == { PRoster }
BackupArgs == { PRoster, PNoExt, PRootDir }
WriteArgs  == { PRoster, PBare }

Step(c) ==
    \/ \E p \in SaveArgs : LoadCsvFile(c, p)
    \/ \E p \in BackupArgs, io \in IoOutcomes : CreateBackup(c, p, io)
    \/ \E p \in SaveArgs, u \in Updates, io \in IoOutcomes : SaveBackup(c, p, u, io)
    \/ SaveLoad(c)
    \/ \E io \in IoOutcomes : SaveOpen(c, io)
    \/ SaveSerialize(c)
    \/ \E io \in IoOutcomes : SaveFlush(c, io)
    \/ \E p \in WriteArgs, content \in RawContents, io \in IoOutcomes :
          WriteBackup(c, p, content, io)
    \/ \E io \in IoOutcomes : WriteContent(c, io)
    \/ PullBegin(c)
    \/ \E out \in GitOutcomes : PullClone(c, out)
    \/ \E out \in GitOutcomes : PullPull(c, out)
    \/ PushBegin(c)
    \/ \E out \in GitOutcomes : PushAdd(c, out)
    \/ \E out \in CommitOutcomes : PushCommit(c, out)
    \/ \E out \in GitOutcomes : PushPush(c, out)

Next == Tick \/ \E c \in Callers : Step(c)

Spec == Init /\ [][Next]_vars

(***************************************************************************)
(* Two invocations of save_player at once.  The command is an async fn     *)
(* (lib.rs 67-70) the runtime runs on its thread pool, so the steps of two *)
(* calls interleave at every filesystem operation; nothing in              *)
(* save_player_data takes a lock.                                          *)
(***************************************************************************)
SaveStep(c) ==
    \/ \E p \in SaveArgs, u \in Updates, io \in IoOutcomes : SaveBackup(c, p, u, io)
    \/ SaveLoad(c)
    \/ \E io \in IoOutcomes : SaveOpen(c, io)
    \/ SaveSerialize(c)
    \/ \E io \in IoOutcomes : SaveFlush(c, io)

NextConc == Tick \/ \E c \in AllCallers : SaveStep(c)

SpecConc == Init /\ [][NextConc]_vars


(***************************************************************************)
(* Properties.                                                             *)
(***************************************************************************)
SaveCall(c)  == call[c].op = "save" /\ call[c].pc # "idle"
SaveDone(c)  == call[c].op = "save" /\ call[c].pc = "done"

\* The content of path p in filesystem f differs from its content in g
Differs(f, g, p) ==
    \/ IsFile(f, p) # IsFile(g, p)
    \/ IsFile(f, p) /\ IsFile(g, p) /\ f[p] # g[p]

\* Files other than those in keep are the same in f and g
SameExcept(f, g, keep) ==
    /\ DOMAIN f \ keep = DOMAIN g \ keep
    /\ \A q \in DOMAIN f \ keep : f[q] = g[q]

\* C1: at every point of save_player_data, if the content of the path differs
\* from its content at the start of the call (truncated, partially written or
\* rewritten), then the backup was taken before and the backup file holds
\* exactly the start-of-call content, whatever barcode the update carries.
C1_BackupBeforeWrite ==
    \A c \in Callers :
        SaveCall(c) /\ Differs(fsys, call[c].pre, call[c].path) =>
            /\ call[c].backedUp
            /\ call[c].bpath # call[c].path
            /\ IsFile(fsys, call[c].bpath)
            /\ IsFile(call[c].pre, call[c].path)
            /\ fsys[call[c].bpath] = call[c].pre[call[c].path]

\* a save whose barcode matches no record has changed the file and its backup is there
C1_Witness ==
    \E c \in Callers :
        /\ SaveCall(c) /\ Differs(fsys, call[c].pre, call[c].path)
        /\ call[c].upd.barcode = "999"
        /\ call[c].pre[call[c].path] = TblTwo
        /\ fsys[call[c].bpath] = TblTwo


\* An updateRecord that, by the specification, has no reason to fail: the
\* operating system failed nothing and the file it started from decodes.
SaveFaultFree(c) ==
    /\ SaveDone(c)
    /\ ~call[c].fault
    /\ IsFile(call[c].pre, call[c].path)
    /\ Decode(call[c].pre[call[c].path]).ok

RosterBefore(c) == Decode(call[c].pre[call[c].path]).players

FileAfter(c) ==
    IF IsFile(fsys, call[c].path) THEN Decode(fsys[call[c].path])
    ELSE [ok |-> FALSE, players |-> << >>]

\* C2: after an updateRecord whose barcode matches exactly one record (and that
\* met no I/O or decode error), the roster in the file has the matched record
\* with the update's first name, last name, phone, email, coach, products and
\* packages, its barcode, team, jersey number and open attributes as before,
\* and every other record as before.
C2_OnlySevenFieldsChange ==
    \A c \in Callers :
        SaveFaultFree(c) /\ Cardinality(Matches(RosterBefore(c), call[c].upd)) = 1 =>
            LET before == RosterBefore(c)
                after  == FileAfter(c)
                u      == call[c].upd
                m      == FirstMatch(before, u)
            IN  /\ after.ok
                /\ Len(after.players) = Len(before)
                /\ \A j \in 1..Len(before) :
                      IF j = m
                      THEN /\ after.players[j].first_name = u.first_name
                           /\ after.players[j].last_name = u.last_name
                           /\ after.players[j].cell_phone = u.cell_phone
                           /\ after.players[j].email = u.email
                           /\ after.players[j].coach = u.coach
                           /\ after.players[j].products = u.products
                           /\ after.players[j].packages = u.packages
                           /\ after.players[j].barcode = before[j].barcode
                           /\ after.players[j].team = before[j].team
                           /\ after.players[j].jersey_number = before[j].jersey_number
                           /\ after.players[j].other_fields = before[j].other_fields
                      ELSE after.players[j] = before[j]

\* C3: an updateRecord whose barcode matches no record (and that met no I/O or
\* decode error) returns Ok, leaves a file that decodes to the same records
\* with the same field values, and has created a backup file.
C3_SilentMissKeepsRoster ==
    \A c \in Callers :
        SaveFaultFree(c) /\ Matches(RosterBefore(c), call[c].upd) = {} =>
            /\ call[c].ok
            /\ FileAfter(c).ok
            /\ FileAfter(c).players = RosterBefore(c)
            /\ call[c].backedUp
            /\ IsFile(fsys, call[c].bpath)

PushCall(c) == call[c].op = "push"
PushDone(c) == call[c].op = "push" /\ call[c].pc = "done"

\* C4: a push whose add succeeded and whose commit reported nothing to commit
\* returns the nothing-to-commit message in the non-error class of its Result
\* (Ok), the class a real add, commit or push failure (Err) is not in.
C4_NothingToCommitIsNotAnError ==
    \A c \in Callers :
        ( /\ PushDone(c)
          /\ Len(call[c].cmds) = 2
          /\ call[c].cmds[1] = [cmd |-> "add", out |-> "success"]
          /\ call[c].cmds[2] = [cmd |-> "commit", out |-> "nothing_to_commit"] )
        => /\ call[c].msg = "Nothing to commit - no changes detected."
           /\ call[c].ok

PushOrder == << "add", "commit", "push" >>

\* C5: the commands a push spawns are a prefix of add, commit, push, each
\* spawned once; a command is followed by the next one only if it exited
\* successfully, a command that did not ends the call, and the call returns
\* Ok (the success confirmation) only after all three exited successfully.
C5_PushRunsInSequence ==
    \A c \in Callers :
        PushCall(c) =>
            LET cmds == call[c].cmds
                n    == Len(cmds)
            IN  /\ n <= 3
                /\ \A i \in 1..n :
                      /\ cmds[i].cmd = PushOrder[i]
                      /\ i < n => cmds[i].out = "success"
                /\ (n > 0 /\ cmds[n].out # "success") => call[c].pc = "done"
                /\ call[c].pc = "commit" => n = 1
                /\ call[c].pc = "push" => n = 2
                /\ (call[c].pc = "done" /\ call[c].ok) =>
                      /\ n = 3
                      /\ cmds[3].out = "success"
                      /\ call[c].msg = "Changes pushed successfully!"
                /\ call[c].msg = "Changes pushed successfully!" => call[c].ok

\* a push stopped by a failed commit: push was never spawned
C5_Witness ==
    \E c \in Callers :
        /\ PushDone(c) /\ ~call[c].ok
        /\ Len(call[c].cmds) = 2
        /\ call[c].cmds[2].out = "failure"

\* C6: a push called while the mvs-job-barcodes directory does not exist
\* returns at once with the "Please pull first" error: it spawns no command
\* and does not create the directory.
C6_PushNeedsTree ==
    \A c \in Callers :
        PushCall(c) /\ parentOk /\ ~call[c].tree0 =>
            /\ call[c].pc = "done"
            /\ ~call[c].ok
            /\ call[c].msg = "mvs-job-barcodes folder not found. Please pull first."
            /\ call[c].cmds = << >>
            /\ ~treeExists

C6_Witness ==
    \E c \in Callers : PushDone(c) /\ parentOk /\ ~call[c].tree0

PullCall(c) == call[c].op = "pull" /\ parentOk
PullDone(c) == PullCall(c) /\ call[c].pc = "done"

\* C7: a pull spawns exactly one command, clone if the directory was absent
\* and pull if it was present; a clone that exits successfully returns Ok with
\* the cloned message and leaves the directory present; once a clone has
\* succeeded the directory stays, and every later pull spawns pull, not clone.
C7_PullClonesOnce ==
    /\ cloned => treeExists
    /\ \A c \in Callers :
          PullCall(c) =>
              /\ call[c].pc # "done" => call[c].cmds = << >>
              /\ call[c].pc = "done" =>
                    /\ Len(call[c].cmds) = 1
                    /\ call[c].cmds[1].cmd = IF call[c].tree0 THEN "pull" ELSE "clone"
                    /\ call[c].cloned0 => call[c].cmds[1].cmd = "pull"
                    /\ call[c].cmds[1] = [cmd |-> "clone", out |-> "success"] =>
                          /\ call[c].ok
                          /\ call[c].msg = "Repository cloned successfully!"
                          /\ treeExists

\* a pull issued after an earlier pull's clone succeeded has spawned git pull
C7_Witness ==
    \E c \in Callers :
        /\ PullDone(c) /\ call[c].cloned0
        /\ call[c].cmds[1].cmd = "pull"

\* C8: a backup that returns Ok returns a path other than P, the file at that
\* path holds what P held when the call started, and P holds it still; a
\* backup of a P that does not exist returns Err and creates no file.
C8_BackupIsACopy ==
    \A c \in Callers :
        call[c].op = "backup" /\ call[c].pc = "done" =>
            LET p   == call[c].path
                pre == call[c].pre
            IN  /\ call[c].ok =>
                      /\ IsFile(pre, p)
                      /\ call[c].bpath # p
                      /\ IsFile(fsys, call[c].bpath)
                      /\ fsys[call[c].bpath] = pre[p]
                      /\ IsFile(fsys, p) /\ fsys[p] = pre[p]
                      /\ SameExcept(fsys, pre, { call[c].bpath })
                /\ ~IsFile(pre, p) => (~call[c].ok /\ fsys = pre)

\* a backup of an existing file without extension succeeded
C8_Witness ==
    \E c \in Callers :
        /\ call[c].op = "backup" /\ call[c].pc = "done" /\ call[c].ok
        /\ call[c].path = PNoExt
        /\ fsys[call[c].bpath] = TblPlain

\* C9: write_csv_content on a target that exists changes the target only
\* after a backup holding the target's pre-call content was created, and does
\* not touch the target when that backup fails; on a target that does not
\* exist it creates no backup; when it returns Ok the target holds exactly
\* the content given.
C9_WriteBacksUpFirst ==
    \A c \in Callers :
        call[c].op = "write" =>
            LET t   == call[c].target
                pre == call[c].pre
            IN  /\ (IsFile(pre, t) /\ Differs(fsys, pre, t)) =>
                      /\ call[c].backedUp
                      /\ IsFile(fsys, call[c].bpath)
                      /\ fsys[call[c].bpath] = pre[t]
                /\ (IsFile(pre, t) /\ ~call[c].backedUp) =>
                      /\ call[c].pc = "done" /\ ~call[c].ok
                      /\ ~Differs(fsys, pre, t)
                /\ ~IsFile(pre, t) =>
                      /\ ~call[c].backedUp
                      /\ SameExcept(fsys, pre, { t })
                /\ (call[c].pc = "done" /\ call[c].ok) =>
                      (IsFile(fsys, t) /\ fsys[t] = call[c].content)

\* an existing target was overwritten with the given content after its backup
C9_Witness ==
    \E c \in Callers :
        /\ call[c].op = "write" /\ call[c].pc = "done" /\ call[c].ok
        /\ IsFile(call[c].pre, call[c].target)
        /\ call[c].pre[call[c].target] # call[c].content
        /\ fsys[call[c].bpath] = call[c].pre[call[c].target]

\* C10: for every file content x that load decodes, encoding the decoded
\* roster succeeds and decoding the result gives the same records with the
\* same field values (the values of unknown columns among them):
\* decode(encode(decode(x))) = decode(x).
C10_RoundTrip ==
    \A c \in Callers :
        call[c].op = "load" /\ call[c].pc = "done" /\ call[c].ok =>
            LET e == Encode(call[c].players)
            IN  /\ e.ok
                /\ Decode(e.content).ok
                /\ Decode(e.content).players = call[c].players


\* A file name of the backup naming scheme of create_backup_file:
\* <stem>_backup_<timestamp>.<ext>, or backup_<timestamp>.csv
IsBackupName(p) ==
    \/ \E i \in 1..Len(p.stem) : p.stem[i] = "_backup_"
    \/ (Len(p.stem) > 0 /\ p.stem[1] = "backup_")

BackupFiles(f) == { p \in DOMAIN f : IsBackupName(p) }

\* C11: no step of any operation (load, save, write, backup, pull, push)
\* removes a backup file: every backup file name present before a step is
\* present after it.
C11_BackupsAreNeverDeleted ==
    [][ BackupFiles(fsys) \subseteq BackupFiles(fsys') ]_vars

\* two backup files have accumulated, the older one having survived an operation
C11_Witness ==
    \E c \in Callers :
        /\ call[c].pc = "done"
        /\ BackupFiles(call[c].pre) # {}
        /\ Cardinality(BackupFiles(fsys)) >= 2


BackupDone(c) == call[c].op = "backup" /\ call[c].pc = "done"

\* C12: the path a backup(P) writes is BackupPath of P and of the second of
\* the call, and of nothing else.  A call in a second in which that path
\* already exists (an earlier backup of P in the same second) adds no file,
\* overwrites the content of that one with P's current content and returns
\* no error for it; the paths of different seconds differ, so a backup of P
\* made in another second remains beside the new one.  A backup call adds at
\* most one file.
C12_BackupNamePerSecond ==
    \A c \in Callers :
        (BackupDone(c) /\ IsFile(call[c].pre, call[c].path)) =>
            LET p   == call[c].path
                pre == call[c].pre
                b   == call[c].bpath
            IN  /\ ~call[c].fault => call[c].ok
                /\ call[c].ok =>
                      /\ \E t \in 1..now :
                            /\ b = BackupPath(p, t)
                            /\ \A t2 \in (1..MaxClock) \ {t} :
                                  /\ BackupPath(p, t2) # b
                                  /\ IsFile(pre, BackupPath(p, t2)) =>
                                        /\ IsFile(fsys, BackupPath(p, t2))
                                        /\ fsys[BackupPath(p, t2)] = pre[BackupPath(p, t2)]
                      /\ DOMAIN fsys = DOMAIN pre \cup {b}
                      /\ IsFile(pre, b) => DOMAIN fsys = DOMAIN pre
                      /\ fsys[b] = pre[p]

\* a second backup of roster.csv in the same second has replaced the content
\* of the backup file the first one wrote
C12_Witness ==
    \E c \in Callers :
        /\ BackupDone(c) /\ call[c].ok
        /\ call[c].path = PRoster
        /\ ~IsFile(call[c].pre, PNoExt)
        /\ IsFile(call[c].pre, call[c].bpath)
        /\ call[c].pre[call[c].bpath] # fsys[call[c].bpath]


WriteDone(c) == call[c].op = "write" /\ call[c].pc = "done"

\* C13: when write_csv_content has returned, with Ok or with Err, the target
\* holds either what it held before the call (or is still absent) or exactly
\* the content given, never a truncated file.
C13_WriteIsAllOrNothing ==
    \A c \in Callers :
        WriteDone(c) =>
            \/ ~Differs(fsys, call[c].pre, call[c].target)
            \/ (IsFile(fsys, call[c].target) /\ fsys[call[c].target] = call[c].content)


\* C14: write_csv_content writes a name without directory component to
\* $HOME/Downloads/<name>, to /tmp/Downloads/<name> when HOME is not set, and
\* creates nothing in the current directory; it writes a name with a
\* directory component to exactly that path.  Besides the target and its
\* backup no file is touched.
C14_BareNamesGoToDownloads ==
    \A c \in Callers :
        call[c].op = "write" =>
            LET p == call[c].path
                t == call[c].target
            IN  /\ p.parent = "" =>
                      /\ homeDir = "/home/user" => t.parent = "/home/user/Downloads"
                      /\ homeDir = "" => t.parent = "/tmp/Downloads"
                      /\ t.stem = p.stem /\ t.ext = p.ext
                      /\ { q \in DOMAIN fsys : q.parent = "" }
                            = { q \in DOMAIN call[c].pre : q.parent = "" }
                /\ (p.parent # "" /\ p.parent # NoParent) => t = p
                /\ \A q \in DOMAIN fsys \cup DOMAIN call[c].pre :
                      Differs(fsys, call[c].pre, q) => (q = t \/ IsBackupName(q))
                /\ (call[c].pc = "done" /\ call[c].ok) =>
                      (IsFile(fsys, t) /\ fsys[t] = call[c].content)

\* with HOME not set, export.csv was written to /tmp/Downloads/export.csv
C14_Witness ==
    \E c \in Callers :
        /\ WriteDone(c) /\ call[c].ok
        /\ call[c].path = PBare /\ homeDir = ""
        /\ ~IsFile(call[c].pre, [parent |-> "/tmp/Downloads", stem |-> << "export" >>, ext |-> "csv"])
        /\ IsFile(fsys, [parent |-> "/tmp/Downloads", stem |-> << "export" >>, ext |-> "csv"])


\* C15: after an updateRecord (no I/O or decode error) whose barcode is shared
\* by several records, the file holds the first of them with the update's
\* values and every later record of that barcode with all its values as before.
C15_OnlyFirstMatchChanges ==
    \A c \in Callers :
        SaveFaultFree(c) /\ Cardinality(Matches(RosterBefore(c), call[c].upd)) > 1 =>
            LET before == RosterBefore(c)
                after  == FileAfter(c)
                m      == FirstMatch(before, call[c].upd)
            IN  /\ after.ok
                /\ Len(after.players) = Len(before)
                /\ after.players[m].first_name = call[c].upd.first_name
                /\ \A j \in Matches(before, call[c].upd) \ { m } :
                      after.players[j] = before[j]

\* C16: after an updateRecord (no I/O or decode error) on a decodable file,
\* a file of zero records included, the file exists and its header row has
\* every label the header of the file before the call had.
C16_NoColumnLost ==
    \A c \in Callers :
        SaveFaultFree(c) =>
            /\ IsFile(fsys, call[c].path)
            /\ \A i \in 1..Len(call[c].pre[call[c].path].header) :
                  Positions(fsys[call[c].path].header,
                            call[c].pre[call[c].path].header[i]) # {}

\* C17: after an updateRecord (no I/O or decode error) the file holds as many
\* records as before the call, with the same barcodes in the same order,
\* whether or not the update matched.
C17_RecordsKeepCountAndOrder ==
    \A c \in Callers :
        SaveFaultFree(c) =>
            /\ FileAfter(c).ok
            /\ Len(FileAfter(c).players) = Len(RosterBefore(c))
            /\ \A j \in 1..Len(RosterBefore(c)) :
                  FileAfter(c).players[j].barcode = RosterBefore(c)[j].barcode


LoadDone(c) == call[c].op = "load" /\ call[c].pc = "done"

\* the position of a team value in the ascending order of strings
RankOf(team) == CHOOSE i \in 1..Len(StringOrder) : StringOrder[i] = team

C19_EarlyFailureLeavesPath ==
    \A c \in Callers :
        SaveCall(c) =>
            LET p == call[c].path
            IN  /\ (~IsFile(call[c].pre, p) \/ call[c].denied) =>
                      /\ call[c].pc = "done" /\ ~call[c].ok
                      /\ ~call[c].backedUp
                      /\ call[c].players = << >> /\ call[c].teams = << >>
                      /\ fsys = call[c].pre
                /\ (call[c].backedUp /\ ~Decode(call[c].pre[p]).ok) =>
                      /\ call[c].pc \in { "load", "done" }
                      /\ call[c].pc = "done" => ~call[c].ok
                      /\ call[c].players = << >>
                      /\ ~Differs(fsys, call[c].pre, p)
                      /\ IsFile(fsys, call[c].bpath)
                      /\ fsys[call[c].bpath] = call[c].pre[p]
                /\ (\/ call[c].pc \in { "load", "open" }
                    \/ (call[c].pc = "done" /\ call[c].msg \in
                          { "Failed to create backup", "Failed to read file",
                            "csv deserialize error" })) =>
                      ~Differs(fsys, call[c].pre, p)

\* a save of a file whose Size column holds 7 failed in decoding: the file is
\* as it was and its backup exists
C19_Witness ==
    \E c \in Callers :
        /\ SaveDone(c) /\ ~call[c].ok /\ call[c].backedUp
        /\ call[c].msg = "csv deserialize error"
        /\ call[c].pre[call[c].path] = TblNumeric
        /\ fsys[call[c].path] = TblNumeric
        /\ ~IsFile(call[c].pre, call[c].bpath)
        /\ fsys[call[c].bpath] = TblNumeric


\* the roster has a record of u's barcode that carries u's seven values
ContainsUpdate(roster, u) ==
    \E j \in 1..Len(roster) :
        /\ roster[j].barcode = u.barcode
        /\ roster[j].first_name = u.first_name /\ roster[j].last_name = u.last_name
        /\ roster[j].cell_phone = u.cell_phone /\ roster[j].email = u.email
        /\ roster[j].coach = u.coach
        /\ roster[j].products = u.products /\ roster[j].packages = u.packages

\* two calls of updateRecord on one path, the only calls made, with different
\* barcodes that both match a record, neither meeting an I/O error
TwoSaves(c1, c2) ==
    /\ c1 # c2 /\ nops = 2
    /\ SaveDone(c1) /\ SaveDone(c2)
    /\ call[c1].path = call[c2].path
    /\ ~call[c1].fault /\ ~call[c2].fault
    /\ IsFile(call[c1].pre, call[c1].path)
    /\ Decode(call[c1].pre[call[c1].path]).ok
    /\ call[c1].upd.barcode # call[c2].upd.barcode
    /\ Matches(RosterBefore(c1), call[c1].upd) # {}
    /\ Matches(RosterBefore(c1), call[c2].upd) # {}

\* C20: when two such calls ran one after the other (neither started while
\* the other was inside its call), the file decodes to a roster that carries
\* both updates.
C20_SequentialSavesKeepBoth ==
    \A c1, c2 \in AllCallers :
        TwoSaves(c1, c2) /\ call[c1].during = {} /\ call[c2].during = {} =>
            /\ FileAfter(c1).ok
            /\ ContainsUpdate(FileAfter(c1).players, call[c1].upd)
            /\ ContainsUpdate(FileAfter(c1).players, call[c2].upd)

====
